---- MODULE Spec2Model ----
(***************************************************************************)
(* Livestock-herd metrics: the validator (functions/data_validation.py),   *)
(* the calculators, the Herd class, evaluate_sustainability and main       *)
(* (livestock_project/project.py).                                         *)
(*                                                                         *)
(* Representation.  A cell of a table is <<>> when it is missing (NaN, NaT,*)
(* None) and <<v>> when it holds v.  Dates are whole days (an integer day  *)
(* number); weights are whole kilograms.  Floating-point results are exact *)
(* rationals [n, d] in lowest terms with d > 0; round[x, k] rounds the     *)
(* exact value half-to-even.  Binary floating-point error is not modelled. *)
(***************************************************************************)
EXTENDS Integers, Sequences, FiniteSets, TLC

VARIABLES
    pc,          \* position of the run: "ready"/"returned" for a single call, or main's position
    fileExists,  \* whether data/livestock_data.xlsx exists
    raw,         \* the sheet "animals" as read_excel returns it
    df,          \* the table the calculators read
    today,       \* pd.Timestamp.today().normalize(), as a day number
    call,        \* the last call made: the function and its arguments
    ret,         \* what the last call returned or raised
    steps,       \* main: the steps run so far, in order
    locals,      \* main: structure, productivity, sustainability
    stdout,      \* main: the blocks printed
    output       \* main: the artifacts written to results_report.xlsx

vars == <<pc, fileExists, raw, df, today, call, ret, steps, locals, stdout, output>>

-----------------------------------------------------------------------------
(* Bounds of the model *)

MaxHerd == 3       \* rows of a table in Spec and SpecStructure
MaxRecords == 2    \* rows of a table in SpecMetrics
MaxSheet == 2      \* rows of the raw sheet in SpecMain

-----------------------------------------------------------------------------
(* Cells *)

NA == <<>>
isna(x) == x = NA
notna(x) == x /= NA
V(x) == x[1]

-----------------------------------------------------------------------------
(* Exact rationals standing for floats.  The arithmetic is written as functions, *)
(* which take their arguments by value.                                          *)

Rational == [n : Int, d : Int]

Abs(x) == IF x < 0 THEN -x ELSE x

GCD[a \in Nat, b \in Nat] == IF b = 0 THEN a ELSE GCD[b, a % b]

\* n/d in lowest terms with a positive denominator
Rat[n \in Int, d \in Int] ==
    LET g == GCD[Abs(n), Abs(d)]
        s == IF d < 0 THEN -1 ELSE 1
    IN  [n |-> s * (n \div g), d |-> s * (d \div g)]

RAdd[a \in Rational, b \in Rational] == Rat[a.n * b.d + b.n * a.d, a.d * b.d]
RSub[a \in Rational, b \in Rational] == Rat[a.n * b.d - b.n * a.d, a.d * b.d]
RMul[a \in Rational, b \in Rational] == Rat[a.n * b.n, a.d * b.d]
RDiv[a \in Rational, b \in Rational] == Rat[a.n * b.d, a.d * b.n]
RLt(a, b) == a.n * b.d < b.n * a.d
RLe(a, b) == a.n * b.d <= b.n * a.d
FromInt(i) == Rat[i, 1]

Pow10[k \in Nat] == IF k = 0 THEN 1 ELSE 10 * Pow10[k - 1]

\* the integer nearest to n/d (d > 0), ties to the even one
rint[n \in Int, d \in Nat] ==
    LET q == (2 * n + d) \div (2 * d)
        r == (2 * n + d) % (2 * d)
    IN  IF r = 0 /\ q % 2 /= 0 THEN q - 1 ELSE q

\* round(x, ndigits)
round[x \in Rational, ndigits \in Nat] == Rat[rint[x.n * Pow10[ndigits], x.d], Pow10[ndigits]]

-----------------------------------------------------------------------------
(* Series: one cell per row, aligned by position *)

Column(t, c) == [i \in 1..Len(t.rows) |-> t.rows[i][c]]

\* s.fillna(o), o a scalar cell
fillna(s, o) == [i \in 1..Len(s) |-> IF isna(s[i]) THEN o ELSE s[i]]

\* s.fillna(o), o a series
fillna_series(s, o) == [i \in 1..Len(s) |-> IF isna(s[i]) THEN o[i] ELSE s[i]]

\* (a - b).dt.days : missing when either date is missing
days_between(a, b) ==
    [i \in 1..Len(a) |-> IF isna(a[i]) \/ isna(b[i]) THEN NA ELSE <<V(a[i]) - V(b[i])>>]

\* the filter of non-positive durations left out
where_positive_unfiltered(s) == s

\* s.where(s > 0) on whole numbers
where_positive(s) == [i \in 1..Len(s) |-> IF notna(s[i]) /\ V(s[i]) > 0 THEN s[i] ELSE NA]

\* s / 365.25
years(s) == [i \in 1..Len(s) |-> IF isna(s[i]) THEN NA ELSE <<Rat[V(s[i]) * 100, 36525]>>]

\* s.loc[mask]
loc(s, mask) ==
    LET kept == SelectSeq([i \in 1..Len(s) |-> i], LAMBDA i : mask[i])
    IN  [k \in 1..Len(kept) |-> s[kept[k]]]

\* the sum of the cells that are not missing
RSum[s \in Seq(Seq(Rational))] ==
    IF Len(s) = 0 THEN FromInt(0)
    ELSE IF isna(Head(s)) THEN RSum[Tail(s)]
    ELSE RAdd[V(Head(s)), RSum[Tail(s)]]

\* s.count(): the cells that are not missing
Count(s) == Cardinality({i \in 1..Len(s) : notna(s[i])})

\* s.mean(): missing cells are skipped; NaN when none is left
mean(s) == IF Count(s) = 0 THEN NA ELSE <<RDiv[RSum[s], FromInt(Count(s))]>>

\* mask.sum() of a boolean series
CountTrue(m) == Cardinality({i \in 1..Len(m) : m[i]})

-----------------------------------------------------------------------------
(* Tables and results *)

required_columns ==
    {"animal_id", "sex", "birth_date", "exit_date", "exit_reason",
     "weight_birth_kg", "weight_weaning_kg", "weight_last_kg", "last_weight_date"}

\* only `df is None` is tested
empty_never(t) == FALSE

\* df.empty
empty(t) == t.columns = {} \/ Len(t.rows) = 0

Return(v) == [raised |-> FALSE, value |-> v]
Raise(kind, about) == [raised |-> TRUE, error |-> kind, about |-> about]

NoCall == [fn |-> "none"]
\* the value of a call that returns nothing
None == [none |-> TRUE]

NoRet == [raised |-> FALSE, value |-> None]

-----------------------------------------------------------------------------
(* Herd.total_livestock_units *)

\* age_years = (reference_date - birth_date).dt.days / 365.25, then .where(age_years >= 0)
age_years(birth, reference_date) ==
    LET d == days_between([i \in 1..Len(birth) |-> <<reference_date>>], birth)
        y == years(d)
    IN  [i \in 1..Len(y) |-> IF notna(y[i]) /\ RLe(FromInt(0), V(y[i])) THEN y[i] ELSE NA]

\* without the second np.where line: an undefined age counts as an adult
livestock_unit_without_nan_line(a) ==
    IF notna(a) /\ RLt(V(a), FromInt(1)) THEN Rat[4, 10]
    ELSE IF notna(a) /\ RLt(V(a), FromInt(2)) THEN Rat[6, 10]
    ELSE Rat[10, 10]

\* the two np.where lines: NaN < 1 and NaN < 2 are both false, so NaN first maps to 1.0,
\* and the second line sets it to 0.0
livestock_unit(a) ==
    LET first == IF notna(a) /\ RLt(V(a), FromInt(1)) THEN Rat[4, 10]
                 ELSE IF notna(a) /\ RLt(V(a), FromInt(2)) THEN Rat[6, 10]
                 ELSE Rat[10, 10]
    IN  IF isna(a) THEN Rat[0, 10] ELSE first

active_rows(t, only_active) ==
    IF only_active /\ "exit_date" \in t.columns
    THEN [t EXCEPT !.rows = loc(t.rows, [i \in 1..Len(t.rows) |-> isna(t.rows[i].exit_date)])]
    ELSE t

total_livestock_units(t, reference_date, only_active, now) ==
    LET d == active_rows(t, only_active)
    IN  IF empty(d) THEN Return(FromInt(0))
        ELSE IF "birth_date" \notin d.columns THEN Raise("KeyError", "birth_date")
        ELSE LET ref == IF isna(reference_date) THEN now ELSE V(reference_date)
                 age == age_years(Column(d, "birth_date"), ref)
                 lu == [i \in 1..Len(age) |-> <<livestock_unit(age[i])>>]
             IN  Return(RSum[lu])

-----------------------------------------------------------------------------
(* evaluate_sustainability *)

\* the upper bound of the AT RISK band taken as exclusive
sustainability_status_exclusive(stocking_rate, max_lu_per_ha) ==
    IF RLe(stocking_rate, max_lu_per_ha) THEN "OK"
    ELSE IF RLt(stocking_rate, RMul[Rat[110, 100], max_lu_per_ha]) THEN "AT RISK"
    ELSE "CRITICAL"

sustainability_status(stocking_rate, max_lu_per_ha) ==
    IF RLe(stocking_rate, max_lu_per_ha) THEN "OK"
    ELSE IF RLe(stocking_rate, RMul[Rat[110, 100], max_lu_per_ha]) THEN "AT RISK"
    ELSE "CRITICAL"

\* the returned dict (lines 204-210)
result_mapping_two_decimals(total_lu, farm_area_ha, max_lu_per_ha, stocking_rate, status) ==
    [total_lu |-> round[total_lu, 2],
     farm_area_ha |-> farm_area_ha,
     max_lu_per_ha |-> max_lu_per_ha,
     stocking_rate_lu_ha |-> round[stocking_rate, 2],
     sustainability_status |-> status]

result_mapping(total_lu, farm_area_ha, max_lu_per_ha, stocking_rate, status) ==
    [total_lu |-> round[total_lu, 2],
     farm_area_ha |-> farm_area_ha,
     max_lu_per_ha |-> max_lu_per_ha,
     stocking_rate_lu_ha |-> round[stocking_rate, 3],
     sustainability_status |-> status]

\* the livestock units are computed before the parameters are checked
evaluate_sustainability_checks_last(t, farm_area_ha, max_lu_per_ha, now) ==
    LET lu == total_livestock_units(t, NA, TRUE, now)
    IN  IF lu.raised THEN lu
        ELSE IF RLe(max_lu_per_ha, FromInt(0)) THEN Raise("ValueError", "max_lu_per_ha")
        ELSE IF RLe(farm_area_ha, FromInt(0)) THEN Raise("ValueError", "farm_area_ha")
        ELSE LET stocking_rate == RDiv[lu.value, farm_area_ha]
             IN  Return(result_mapping(lu.value, farm_area_ha, max_lu_per_ha, stocking_rate,
                                       sustainability_status(stocking_rate, max_lu_per_ha)))

evaluate_sustainability(t, farm_area_ha, max_lu_per_ha, now) ==
    IF RLe(farm_area_ha, FromInt(0)) THEN Raise("ValueError", "farm_area_ha")
    ELSE IF RLe(max_lu_per_ha, FromInt(0)) THEN Raise("ValueError", "max_lu_per_ha")
    ELSE LET lu == total_livestock_units(t, NA, TRUE, now)
         IN  IF lu.raised THEN lu
             ELSE LET total_lu == lu.value
                      stocking_rate == RDiv[total_lu, farm_area_ha]
                  IN  Return(result_mapping(total_lu, farm_area_ha, max_lu_per_ha, stocking_rate,
                                            sustainability_status(stocking_rate, max_lu_per_ha)))

-----------------------------------------------------------------------------
(* calculate_herd_structure *)

\* int(df["sex"].value_counts(dropna=False).get(label, 0))
sex_count(t, label) ==
    CountTrue([i \in 1..Len(t.rows) |-> t.rows[i].sex = <<label>>])

\* the fraction, not multiplied by 100
percentage_as_fraction(count, total) ==
    IF total /= 0 THEN Rat[count, total] ELSE FromInt(0)

\* (count / total) * 100 if total else 0.0
percentage(count, total) ==
    IF total /= 0 THEN RMul[Rat[count, total], FromInt(100)] ELSE FromInt(0)

\* ref_date = exit_date.fillna(today); age_days = (ref_date - birth_date).dt.days;
\* age_days.where(age_days > 0); (age_days / 365.25).mean()
avg_age_years(t, now) ==
    LET ref_date == fillna(Column(t, "exit_date"), <<now>>)
        age_days == where_positive(days_between(ref_date, Column(t, "birth_date")))
    IN  mean(years(age_days))

\* round[x, ndigits] if pd.notna(x) else np.nan
round_or_nan(x, ndigits) == IF notna(x) THEN <<round[V(x), ndigits]>> ELSE NA

calculate_herd_structure(t, now) ==
    IF empty(t)
    THEN Return([total_animals |-> 0, pct_females |-> FromInt(0),
                 pct_males |-> FromInt(0), avg_age_years |-> NA])
    ELSE IF ~({"sex", "exit_date", "birth_date"} \subseteq t.columns)
    THEN Raise("KeyError", "column")
    ELSE LET total == Len(t.rows)
             females == sex_count(t, "F")
             males == sex_count(t, "M")
         IN  Return([total_animals |-> total,
                     pct_females |-> round[percentage(females, total), 2],
                     pct_males |-> round[percentage(males, total), 2],
                     avg_age_years |-> round_or_nan(avg_age_years(t, now), 2)])

-----------------------------------------------------------------------------
(* calculate_productivity_metrics *)

\* end_date = last_weight_date.fillna(exit_date)
end_date(t) == fillna_series(Column(t, "last_weight_date"), Column(t, "exit_date"))

\* a row counts as complete only when its duration is positive as well
complete_mask_positive_days(t) ==
    LET e == end_date(t)
    IN  [i \in 1..Len(t.rows) |->
            /\ notna(t.rows[i].weight_birth_kg)
            /\ notna(t.rows[i].weight_last_kg)
            /\ notna(t.rows[i].birth_date)
            /\ notna(e[i])
            /\ V(e[i]) > V(t.rows[i].birth_date)]

complete_mask(t) ==
    LET e == end_date(t)
    IN  [i \in 1..Len(t.rows) |->
            /\ notna(t.rows[i].weight_birth_kg)
            /\ notna(t.rows[i].weight_last_kg)
            /\ notna(t.rows[i].birth_date)
            /\ notna(e[i])]

\* float(complete_mask.mean() * 100) if len(df) else 0.0
pct_complete(t) ==
    IF Len(t.rows) /= 0
    THEN RMul[Rat[CountTrue(complete_mask(t)), Len(t.rows)], FromInt(100)]
    ELSE FromInt(0)

\* the rows kept for the gain: complete, and days_alive > 0; then
\* ((weight_last_kg - weight_birth_kg) / days_alive).mean()
avg_daily_gain(t) ==
    LET mask == complete_mask(t)
        df_complete == loc(t.rows, mask)
        end_date_complete == loc(end_date(t), mask)
        days_alive == days_between(end_date_complete,
                                   [i \in 1..Len(df_complete) |-> df_complete[i].birth_date])
        valid_days_mask == [i \in 1..Len(days_alive) |-> V(days_alive[i]) > 0]
        df_valid == loc(df_complete, valid_days_mask)
        days_valid == loc(days_alive, valid_days_mask)
        adg == [i \in 1..Len(df_valid) |->
                   <<Rat[V(df_valid[i].weight_last_kg) - V(df_valid[i].weight_birth_kg),
                         V(days_valid[i])]>>]
    IN  IF Len(df_valid) > 0 THEN mean(adg) ELSE NA

\* exit_mask = exit_date.notna() & birth_date.notna(); ages <= 0 become NaN
mean_age_at_exit_years(t) ==
    LET exit_mask == [i \in 1..Len(t.rows) |->
                         notna(t.rows[i].exit_date) /\ notna(t.rows[i].birth_date)]
        age_exit_days == where_positive(
                             days_between(loc(Column(t, "exit_date"), exit_mask),
                                          loc(Column(t, "birth_date"), exit_mask)))
    IN  IF CountTrue(exit_mask) > 0 THEN mean(years(age_exit_days)) ELSE NA

calculate_productivity_metrics(t) ==
    IF empty(t)
    THEN Return([avg_daily_gain_kg_day |-> NA, mean_age_at_exit_years |-> NA,
                 pct_complete_weight_records |-> FromInt(0)])
    ELSE IF ~({"last_weight_date", "exit_date", "weight_birth_kg", "weight_last_kg",
               "birth_date"} \subseteq t.columns)
    THEN Raise("KeyError", "column")
    ELSE Return([avg_daily_gain_kg_day |-> round_or_nan(avg_daily_gain(t), 4),
                 mean_age_at_exit_years |-> round_or_nan(mean_age_at_exit_years(t), 2),
                 pct_complete_weight_records |-> round[pct_complete(t), 2]])

-----------------------------------------------------------------------------
(* load_animal_data.  In the sheet read_excel returns, animal_id is <<characters>>, sex is
   <<label>>, and a date or weight cell is <<"date", day>>, <<"number", kg>> or
   <<"text", string>>. *)

Digits == {"0", "1", "2", "3", "4", "5", "6", "7", "8", "9"}

\* astype(str): a missing cell reads "nan"
astype_str(c) == IF isna(c) THEN <<"n", "a", "n">> ELSE V(c)

\* re.match(r"^PT\d{9}$", s): in Python `$` also matches before one trailing newline
str_match(s) ==
    LET body == IF Len(s) = 12 /\ s[12] = "\n" THEN SubSeq(s, 1, 11) ELSE s
    IN  /\ Len(body) = 11
        /\ body[1] = "P"
        /\ body[2] = "T"
        /\ \A i \in 3..11 : body[i] \in Digits

allowed_sex == {"M", "F"}

\* isin(allowed_sex): a missing cell is not in the set
isin_allowed_sex(c) == notna(c) /\ V(c) \in allowed_sex

\* pd.to_datetime(errors="coerce")
to_datetime(c) == IF notna(c) /\ c[1] = "date" THEN <<c[2]>> ELSE NA

\* pd.to_numeric(errors="coerce")
to_numeric(c) == IF notna(c) /\ c[1] = "number" THEN <<c[2]>> ELSE NA

convert_dates(r) ==
    [r EXCEPT !.birth_date = to_datetime(@), !.exit_date = to_datetime(@),
              !.last_weight_date = to_datetime(@)]

convert_weights(r) ==
    [r EXCEPT !.weight_birth_kg = to_numeric(@), !.weight_weaning_kg = to_numeric(@),
              !.weight_last_kg = to_numeric(@)]

\* rows that fail a check are dropped and the rest is returned
load_animal_data_skipping_rows(sheet) ==
    IF ~(required_columns \subseteq sheet.columns)
    THEN Raise("ValueError", "Missing required columns")
    ELSE LET good(r) == str_match(astype_str(r.animal_id)) /\ isin_allowed_sex(r.sex)
             kept == SelectSeq(sheet.rows, good)
         IN  Return([columns |-> sheet.columns,
                     rows |-> [i \in 1..Len(kept) |-> convert_weights(convert_dates(kept[i]))]])

load_animal_data(sheet) ==
    IF ~(required_columns \subseteq sheet.columns)
    THEN Raise("ValueError", "Missing required columns")
    ELSE LET dated == [i \in 1..Len(sheet.rows) |-> convert_dates(sheet.rows[i])]
         IN  IF \E i \in 1..Len(dated) : ~str_match(astype_str(dated[i].animal_id))
             THEN Raise("ValueError", "Invalid animal_id format")
             ELSE IF \E i \in 1..Len(dated) : ~isin_allowed_sex(dated[i].sex)
             THEN Raise("ValueError", "Invalid sex values")
             ELSE Return([columns |-> sheet.columns,
                          rows |-> [i \in 1..Len(dated) |-> convert_weights(dated[i])]])

\* ensure_file_exists
ensure_file_exists(exists) ==
    IF ~exists THEN Raise("FileNotFoundError", "data/livestock_data.xlsx") ELSE Return(None)

\* summary = {**structure, **productivity, **sustainability}: a later key wins
summary_of(structure, productivity, sustainability) ==
    sustainability @@ productivity @@ structure

-----------------------------------------------------------------------------
(* Inputs *)

Row(sex, birth_date, exit_date, last_weight_date, weight_birth_kg, weight_last_kg) ==
    [animal_id |-> <<"PT123456789">>, sex |-> sex, birth_date |-> birth_date,
     exit_date |-> exit_date, exit_reason |-> NA, weight_birth_kg |-> weight_birth_kg,
     weight_weaning_kg |-> NA, weight_last_kg |-> weight_last_kg,
     last_weight_date |-> last_weight_date]

\* every table of at most k rows drawn from R, and pd.DataFrame()
TablesOf(R, k) ==
    {[columns |-> {}, rows |-> <<>>]}
        \cup UNION {{[columns |-> required_columns, rows |-> r] : r \in [1..len -> R]} : len \in 0..k}

\* Spec: the rows differ in birth_date and exit_date.  With today 731 the births 0, 1 and
\* 400 are 731, 730 and 331 days old; with today 366 they are 366, 365 and -34 days old.
HerdRows ==
    {Row(<<"F">>, b, e, NA, NA, NA) : b \in {NA, <<0>>, <<1>>, <<400>>}, e \in {NA, <<500>>}}

\* a frame with rows and no birth_date column
NoBirthDate == [columns |-> {"sex"}, rows |-> <<Row(<<"F">>, NA, NA, NA, NA, NA)>>]

HerdTables == TablesOf(HerdRows, MaxHerd) \cup {NoBirthDate}
Todays == {366, 731}
ReferenceDates == {NA, <<366>>, <<731>>}
Areas == {Rat[-1, 1], Rat[0, 1], Rat[1, 1], Rat[3, 1]}
MaxRates == {Rat[-1, 1], Rat[0, 1], Rat[333, 1000], Rat[2, 5], Rat[2, 1]}

NoSheet == [columns |-> {}, rows |-> <<>>]
NoLocals == [structure |-> NoRet, productivity |-> NoRet, sustainability |-> NoRet]

InitCalls(tables, days) ==
    /\ pc = "ready"
    /\ fileExists = TRUE
    /\ raw = NoSheet
    /\ df \in tables
    /\ today \in days
    /\ call = NoCall
    /\ ret = NoRet
    /\ steps = <<>>
    /\ locals = NoLocals
    /\ stdout = <<>>
    /\ output = <<>>

Returned(c, r) ==
    /\ pc' = "returned"
    /\ call' = c
    /\ ret' = r
    /\ UNCHANGED <<fileExists, raw, df, today, steps, locals, stdout, output>>

-----------------------------------------------------------------------------
(* One call of each function on the table *)

CallTotalLivestockUnits ==
    /\ pc = "ready"
    /\ \E reference_date \in ReferenceDates, only_active \in BOOLEAN :
          Returned([fn |-> "total_livestock_units", reference_date |-> reference_date,
                    only_active |-> only_active],
                   total_livestock_units(df, reference_date, only_active, today))

CallEvaluateSustainability ==
    /\ pc = "ready"
    /\ \E farm_area_ha \in Areas, max_lu_per_ha \in MaxRates :
          Returned([fn |-> "evaluate_sustainability", farm_area_ha |-> farm_area_ha,
                    max_lu_per_ha |-> max_lu_per_ha],
                   evaluate_sustainability(df, farm_area_ha, max_lu_per_ha, today))

CallCalculateHerdStructure ==
    /\ pc = "ready"
    /\ Returned([fn |-> "calculate_herd_structure"], calculate_herd_structure(df, today))

CallCalculateProductivityMetrics ==
    /\ pc = "ready"
    /\ Returned([fn |-> "calculate_productivity_metrics"], calculate_productivity_metrics(df))

\* SpecMetrics: the rows differ in the dates and the weights.  Born on day 10, a row
\* leaves on day 5 (before its birth), 10 (the same day) or 30; a weighing is the date of
\* the last weighing (day 20), the weight at birth and the last weight.
MetricWeighings ==
    {<<NA, NA, NA>>, <<NA, <<35>>, <<50>>>>, <<<<20>>, <<35>>, <<50>>>>, <<<<20>>, <<35>>, NA>>}

MetricRows ==
    {Row(<<"F">>, b, e, w[1], w[2], w[3]) :
        b \in {NA, <<10>>}, e \in {NA, <<5>>, <<10>>, <<30>>}, w \in MetricWeighings}

\* SpecStructure: the rows differ in sex and in the dates
StructureRows ==
    {Row(s, b, e, NA, NA, NA) : s \in {<<"F">>, <<"M">>}, b \in {NA, <<10>>}, e \in {NA, <<5>>, <<30>>}}

Init == InitCalls(HerdTables, Todays)
Next == CallTotalLivestockUnits \/ CallEvaluateSustainability
Spec == Init /\ [][Next]_vars

InitMetrics == InitCalls(TablesOf(MetricRows, MaxRecords), {40})
NextMetrics == CallCalculateHerdStructure \/ CallCalculateProductivityMetrics
SpecMetrics == InitMetrics /\ [][NextMetrics]_vars

InitStructure == InitCalls(TablesOf(StructureRows, MaxHerd), {40})
NextStructure == CallCalculateHerdStructure
SpecStructure == InitStructure /\ [][NextStructure]_vars

-----------------------------------------------------------------------------
(* main *)

farm_area_ha_main == 120
max_lu_per_ha_main == Rat[6, 10]

ValidId == <<"P", "T", "1", "2", "3", "4", "5", "6", "7", "8", "9">>

SheetRow(animal_id, sex, birth_date, weight_birth_kg) ==
    [animal_id |-> animal_id, sex |-> sex, birth_date |-> birth_date, exit_date |-> NA,
     exit_reason |-> NA, weight_birth_kg |-> weight_birth_kg, weight_weaning_kg |-> NA,
     weight_last_kg |-> <<"number", 50>>, last_weight_date |-> <<"date", 20>>]

\* the cells of a row: both parseable, an unparseable birth_date, an unparseable
\* weight_birth_kg
SheetCells ==
    {<<<<"date", 10>>, <<"number", 35>>>>,
     <<<<"text", "n/a">>, <<"number", 35>>>>,
     <<<<"date", 10>>, <<"text", "n/a">>>>}

\* the identifiers that are not accepted: one digit short, and eleven characters
\* without the PT prefix; and one that is: valid followed by a newline
ShortId == SubSeq(ValidId, 1, 10)
NoPrefixId == <<"X", "T", "1", "2", "3", "4", "5", "6", "7", "8", "9">>
NewlineId == Append(ValidId, "\n")

SheetRows ==
    {SheetRow(<<ValidId>>, <<"F">>, c[1], c[2]) : c \in SheetCells}
        \cup {SheetRow(<<id>>, sex, <<"date", 10>>, <<"number", 35>>) :
                  id \in {ShortId, NoPrefixId, NewlineId}, sex \in {<<"F">>, <<"X">>}}
        \cup {SheetRow(<<ValidId>>, <<"X">>, <<"date", 10>>, <<"number", 35>>)}

SheetColumns ==
    {required_columns, required_columns \cup {"notes"}, required_columns \ {"sex"}}

Sheets ==
    UNION {{[columns |-> c, rows |-> r] : c \in SheetColumns, r \in [1..len -> SheetRows]} :
              len \in 0..MaxSheet}

InitMain ==
    /\ pc = "ensure_file_exists"
    /\ fileExists \in BOOLEAN
    /\ raw \in (IF fileExists THEN Sheets ELSE {NoSheet})
    /\ df = NoSheet
    /\ today = 40
    /\ call = NoCall
    /\ ret = NoRet
    /\ steps = <<>>
    /\ locals = NoLocals
    /\ stdout = <<>>
    /\ output = <<>>

\* one statement of main: it returns and main goes on, or it raises and the run ends
Step(name, result, next) ==
    /\ pc = name
    /\ steps' = Append(steps, name)
    /\ call' = [fn |-> name]
    /\ ret' = result
    /\ pc' = IF result.raised THEN "failed" ELSE next
    /\ UNCHANGED <<fileExists, raw, today>>

MainEnsureFileExists ==
    /\ Step("ensure_file_exists", ensure_file_exists(fileExists), "load_animal_data")
    /\ UNCHANGED <<df, locals, stdout, output>>

MainLoadAnimalData ==
    /\ pc = "load_animal_data"
    /\ \E r \in {load_animal_data(raw)} :
        /\ Step("load_animal_data", r, "calculate_herd_structure")
        /\ df' = IF r.raised THEN df ELSE r.value
        /\ UNCHANGED <<locals, stdout, output>>

MainCalculateHerdStructure ==
    /\ pc = "calculate_herd_structure"
    /\ \E r \in {calculate_herd_structure(df, today)} :
        /\ Step("calculate_herd_structure", r, "calculate_productivity_metrics")
        /\ locals' = IF r.raised THEN locals ELSE [locals EXCEPT !.structure = r]
        /\ UNCHANGED <<df, stdout, output>>

MainCalculateProductivityMetrics ==
    /\ pc = "calculate_productivity_metrics"
    /\ \E r \in {calculate_productivity_metrics(df)} :
        /\ Step("calculate_productivity_metrics", r, "evaluate_sustainability")
        /\ locals' = IF r.raised THEN locals ELSE [locals EXCEPT !.productivity = r]
        /\ UNCHANGED <<df, stdout, output>>

MainEvaluateSustainability ==
    /\ pc = "evaluate_sustainability"
    /\ \E r \in {evaluate_sustainability(df, FromInt(farm_area_ha_main), max_lu_per_ha_main, today)} :
        /\ Step("evaluate_sustainability", r, "print")
        /\ locals' = IF r.raised THEN locals ELSE [locals EXCEPT !.sustainability = r]
        /\ UNCHANGED <<df, stdout, output>>

MainPrint ==
    /\ Step("print", Return(None), "export_report_to_excel")
    /\ stdout' = stdout \o <<locals.structure.value, locals.productivity.value,
                             locals.sustainability.value>>
    /\ UNCHANGED <<df, locals, output>>

\* variant: the report written in a `finally`, also after a failed run
MainExportReportAfterFailure ==
    /\ pc \in {"export_report_to_excel", "failed"}
    /\ Len(output) = 0
    /\ output' = Append(output, [path |-> "results_report.xlsx", animals |-> df])
    /\ pc' = IF pc = "failed" THEN "failed" ELSE "done"
    /\ steps' = Append(steps, "export_report_to_excel")
    /\ UNCHANGED <<fileExists, raw, df, today, call, ret, locals, stdout>>

MainExportReport ==
    /\ Step("export_report_to_excel", Return(None), "done")
    /\ output' = Append(output,
                        [path |-> "results_report.xlsx",
                         summary |-> summary_of(locals.structure.value,
                                                locals.productivity.value,
                                                locals.sustainability.value),
                         animals |-> df])
    /\ stdout' = Append(stdout, "results_report.xlsx")
    /\ UNCHANGED <<df, locals>>

NextMain ==
    \/ MainEnsureFileExists
    \/ MainLoadAnimalData
    \/ MainCalculateHerdStructure
    \/ MainCalculateProductivityMetrics
    \/ MainEvaluateSustainability
    \/ MainPrint
    \/ MainExportReport

\* main is one thread that runs each statement as soon as the one before has returned
SpecMain == InitMain /\ [][NextMain]_vars /\ WF_vars(NextMain)

-----------------------------------------------------------------------------
(* Livestock units and sustainability, stated from the rows (Spec) *)

WellFormed(t) == t.columns = {} \/ t.columns = required_columns

ReturnedFrom(fn) == pc = "returned" /\ call.fn = fn

\* the weight of one row in tenths of a livestock unit, from its age in whole days at ref:
\* a year is 365.25 days, so age < 1 is 4 * days < 1461 and age < 2 is 4 * days < 2922
WeightTenths(row, ref) ==
    IF isna(row.birth_date) THEN 0
    ELSE LET days == ref - V(row.birth_date)
         IN  IF days < 0 THEN 0
             ELSE IF 4 * days < 1461 THEN 4
             ELSE IF 4 * days < 2922 THEN 6
             ELSE 10

RECURSIVE ActiveTenths(_, _)
ActiveTenths(rows, ref) ==
    IF Len(rows) = 0 THEN 0
    ELSE (IF isna(Head(rows).exit_date) THEN WeightTenths(Head(rows), ref) ELSE 0)
             + ActiveTenths(Tail(rows), ref)

\* (tenths / 10) / area <= (percent / 100) * max, for area > 0
RateWithin(tenths, area, percent, max) ==
    tenths * area.d * max.d * 100 <= percent * 10 * area.n * max.n

\* C1: for every table of the data model, every farm_area_ha > 0 and every
\* max_lu_per_ha > 0, evaluate_sustainability returns a mapping whose status is "OK"
\* when rate <= max, "AT RISK" when max < rate <= 1.10 * max and "CRITICAL" when
\* rate > 1.10 * max, where rate is the livestock units of the active rows (at today)
\* divided by the area.
C1_StatusByRate ==
    (/\ ReturnedFrom("evaluate_sustainability")
     /\ WellFormed(df)
     /\ call.farm_area_ha.n > 0
     /\ call.max_lu_per_ha.n > 0)
    => /\ ~ret.raised
       /\ LET tenths == ActiveTenths(df.rows, today)
              ok == RateWithin(tenths, call.farm_area_ha, 100, call.max_lu_per_ha)
              within == RateWithin(tenths, call.farm_area_ha, 110, call.max_lu_per_ha)
          IN  ret.value.sustainability_status =
                  IF ok THEN "OK" ELSE IF within THEN "AT RISK" ELSE "CRITICAL"

\* a rate exactly equal to 1.10 * max, reported AT RISK
C1_Witness ==
    /\ ReturnedFrom("evaluate_sustainability")
    /\ WellFormed(df)
    /\ call.farm_area_ha.n > 0
    /\ call.max_lu_per_ha.n > 0
    /\ ActiveTenths(df.rows, today) * call.farm_area_ha.d * call.max_lu_per_ha.d * 100
           = 110 * 10 * call.farm_area_ha.n * call.max_lu_per_ha.n
    /\ ~ret.raised
    /\ ret.value.sustainability_status = "AT RISK"

\* C2: whenever farm_area_ha <= 0 or max_lu_per_ha <= 0, evaluate_sustainability raises
\* and returns no mapping, for every table; the error is the area's when the area is
\* rejected (the area is checked first) and the threshold's otherwise, and never an
\* error of the livestock-unit computation (the parameters are checked before it).
C2_InvalidParameterRaises ==
    (/\ ReturnedFrom("evaluate_sustainability")
     /\ (call.farm_area_ha.n <= 0 \/ call.max_lu_per_ha.n <= 0))
    => /\ ret.raised
       /\ ret.error = "ValueError"
       /\ ret.about = IF call.farm_area_ha.n <= 0 THEN "farm_area_ha" ELSE "max_lu_per_ha"

\* both parameters rejected, on a frame whose livestock units cannot be computed
C2_Witness ==
    /\ ReturnedFrom("evaluate_sustainability")
    /\ df = NoBirthDate
    /\ call.farm_area_ha.n <= 0
    /\ call.max_lu_per_ha.n <= 0
    /\ ret.raised
    /\ ret.about = "farm_area_ha"

\* C4: for every table of the data model and every reference date (today when none is
\* given), total_livestock_units(reference_date, only_active=True) is the sum over the
\* rows without exit_date of 0.4 (0 <= age < 1), 0.6 (1 <= age < 2), 1.0 (age >= 2) and
\* 0.0 (no birth_date, or a negative age); it is 0.0 when no row is active.
C4_LivestockUnitsByBracket ==
    (/\ ReturnedFrom("total_livestock_units")
     /\ call.only_active
     /\ WellFormed(df))
    => LET ref == IF isna(call.reference_date) THEN today ELSE V(call.reference_date)
       IN  ret = Return(Rat[ActiveTenths(df.rows, ref), 10])

\* an exited row of valid age, an active row of negative age, an active row without
\* birth_date and an active row that counts, in one table
C4_Witness ==
    /\ ReturnedFrom("total_livestock_units")
    /\ call.only_active
    /\ WellFormed(df)
    /\ LET ref == IF isna(call.reference_date) THEN today ELSE V(call.reference_date)
           r == df.rows
       IN  /\ \E i \in 1..Len(r) : notna(r[i].exit_date) /\ notna(r[i].birth_date)
                                     /\ V(r[i].birth_date) <= ref
           /\ \E i \in 1..Len(r) : isna(r[i].exit_date)
                                     /\ (isna(r[i].birth_date) \/ V(r[i].birth_date) > ref)
           /\ \E i \in 1..Len(r) : isna(r[i].exit_date) /\ WeightTenths(r[i], ref) = 6
    /\ ret = Return(Rat[6, 10])

\* C10 as claimed: the status is "OK" exactly when the reported stocking_rate_lu_ha
\* (rounded to 3 decimals) is <= max_lu_per_ha, and "CRITICAL" exactly when it is
\* > 1.10 * max_lu_per_ha.
C10_StatusAgreesWithReportedRate ==
    (ReturnedFrom("evaluate_sustainability") /\ ~ret.raised)
    => LET reported == ret.value.stocking_rate_lu_ha
           max == ret.value.max_lu_per_ha
           status == ret.value.sustainability_status
       IN  /\ (status = "OK") <=> RLe(reported, max)
           /\ (status = "CRITICAL") <=> RLt(RMul[Rat[110, 100], max], reported)

\* C10 amended: the status is decided by the unrounded rate, so it agrees with the
\* reported stocking_rate_lu_ha up to the rounding, half a unit of the third decimal:
\* "OK" implies reported <= max + 0.0005 and any other status reported >= max - 0.0005;
\* "CRITICAL" implies reported >= 1.10 * max - 0.0005 and any other status
\* reported <= 1.10 * max + 0.0005.
C10_StatusAgreesUpToRounding ==
    (ReturnedFrom("evaluate_sustainability") /\ ~ret.raised)
    => LET reported == ret.value.stocking_rate_lu_ha
           max == ret.value.max_lu_per_ha
           upper == RMul[Rat[110, 100], max]
           half == Rat[5, 10000]
           status == ret.value.sustainability_status
       IN  /\ (status = "OK") => RLe(reported, RAdd[max, half])
           /\ (status /= "OK") => RLe(RSub[max, half], reported)
           /\ (status = "CRITICAL") => RLe(RSub[upper, half], reported)
           /\ (status /= "CRITICAL") => RLe(reported, RAdd[upper, half])

\* a mapping labelled AT RISK whose reported rate is not above its max_lu_per_ha
C10_Witness ==
    /\ ReturnedFrom("evaluate_sustainability")
    /\ ~ret.raised
    /\ ret.value.sustainability_status = "AT RISK"
    /\ RLe(ret.value.stocking_rate_lu_ha, ret.value.max_lu_per_ha)

-----------------------------------------------------------------------------
(* The calculators (SpecMetrics, SpecStructure) *)

ExitBeforeBirth(r) ==
    notna(r.exit_date) /\ notna(r.birth_date) /\ V(r.exit_date) < V(r.birth_date)

\* weighed, with both weights, on a day after its birth
WeighedAfterBirth(r) ==
    /\ notna(r.last_weight_date) /\ notna(r.birth_date)
    /\ V(r.last_weight_date) > V(r.birth_date)
    /\ notna(r.weight_birth_kg) /\ notna(r.weight_last_kg)

\* the table without its rows whose exit_date is earlier than their birth_date
WithoutExitBeforeBirth(t) ==
    LET P(r) == ~ExitBeforeBirth(r) IN [t EXCEPT !.rows = SelectSeq(t.rows, P)]

\* the same, keeping the rows that were weighed after their birth
WithoutExitBeforeBirthUnweighed(t) ==
    LET P(r) == ~ExitBeforeBirth(r) \/ WeighedAfterBirth(r) IN [t EXCEPT !.rows = SelectSeq(t.rows, P)]

\* C5 as claimed: a row whose exit_date is earlier than its birth_date contributes to none
\* of avg_age_years, avg_daily_gain_kg_day and mean_age_at_exit_years, whatever its other
\* fields are: each equals its value over the remaining rows.
C5_ExitBeforeBirthNeverContributes ==
    /\ ReturnedFrom("calculate_herd_structure") =>
          ret.value.avg_age_years =
              calculate_herd_structure(WithoutExitBeforeBirth(df), today).value.avg_age_years
    /\ ReturnedFrom("calculate_productivity_metrics") =>
          LET rest == calculate_productivity_metrics(WithoutExitBeforeBirth(df)).value
          IN  /\ ret.value.avg_daily_gain_kg_day = rest.avg_daily_gain_kg_day
              /\ ret.value.mean_age_at_exit_years = rest.mean_age_at_exit_years

\* C5 amended: a row whose exit_date is earlier than its birth_date contributes to neither
\* avg_age_years nor mean_age_at_exit_years, and contributes to avg_daily_gain_kg_day only
\* when it has both weights and a last_weight_date later than its birth_date (the gain's
\* duration ends at last_weight_date when there is one, not at exit_date).
C5_ExitBeforeBirthContributesOnlyByWeighing ==
    /\ ReturnedFrom("calculate_herd_structure") =>
          ret.value.avg_age_years =
              calculate_herd_structure(WithoutExitBeforeBirth(df), today).value.avg_age_years
    /\ ReturnedFrom("calculate_productivity_metrics") =>
          /\ ret.value.mean_age_at_exit_years =
                 calculate_productivity_metrics(WithoutExitBeforeBirth(df)).value.mean_age_at_exit_years
          /\ ret.value.avg_daily_gain_kg_day =
                 calculate_productivity_metrics(WithoutExitBeforeBirthUnweighed(df)).value.avg_daily_gain_kg_day

\* two rows that left before their birth: one weighed after it, which makes the gain, and
\* one with both weights and no last_weight_date, which does not
C5_Witness ==
    /\ ReturnedFrom("calculate_productivity_metrics")
    /\ \E i \in 1..Len(df.rows) : ExitBeforeBirth(df.rows[i]) /\ WeighedAfterBirth(df.rows[i])
    /\ \E i \in 1..Len(df.rows) :
          /\ ExitBeforeBirth(df.rows[i])
          /\ isna(df.rows[i].last_weight_date)
          /\ notna(df.rows[i].weight_birth_kg) /\ notna(df.rows[i].weight_last_kg)
    /\ ret.value.avg_daily_gain_kg_day = <<Rat[15, 10]>>
    /\ ret.value.mean_age_at_exit_years = NA

\* C6: on an empty table, with or without columns, neither calculator raises and each
\* returns its defaults: total_animals 0, both percentages 0.0, avg_age_years undefined;
\* avg_daily_gain_kg_day and mean_age_at_exit_years undefined,
\* pct_complete_weight_records 0.0.
C6_EmptyTableDefaults ==
    /\ (ReturnedFrom("calculate_herd_structure") /\ Len(df.rows) = 0) =>
          /\ ~ret.raised
          /\ ret.value = [total_animals |-> 0, pct_females |-> [n |-> 0, d |-> 1],
                          pct_males |-> [n |-> 0, d |-> 1], avg_age_years |-> NA]
    /\ (ReturnedFrom("calculate_productivity_metrics") /\ Len(df.rows) = 0) =>
          /\ ~ret.raised
          /\ ret.value = [avg_daily_gain_kg_day |-> NA, mean_age_at_exit_years |-> NA,
                          pct_complete_weight_records |-> [n |-> 0, d |-> 1]]

\* calculate_productivity_metrics has returned on the table without columns
C6_Witness ==
    /\ ReturnedFrom("calculate_productivity_metrics")
    /\ df.columns = {}
    /\ Len(df.rows) = 0
    /\ ~ret.raised
    /\ ret.value.pct_complete_weight_records = [n |-> 0, d |-> 1]

CompleteRow(r) ==
    /\ notna(r.weight_birth_kg)
    /\ notna(r.weight_last_kg)
    /\ notna(r.birth_date)
    /\ (notna(r.last_weight_date) \/ notna(r.exit_date))

RECURSIVE CompleteRows(_)
CompleteRows(rows) ==
    IF Len(rows) = 0 THEN 0
    ELSE (IF CompleteRow(Head(rows)) THEN 1 ELSE 0) + CompleteRows(Tail(rows))

\* C7: for every non-empty table, pct_complete_weight_records is 100 * c / n rounded to 2
\* decimals, n the number of all rows and c the number of rows with both weights, a
\* birth_date and an end date (last_weight_date, else exit_date), whether or not the end
\* date is after the birth; when c = 0 it is 0.0 and avg_daily_gain_kg_day is undefined.
C7_CompletenessOverAllRows ==
    (ReturnedFrom("calculate_productivity_metrics") /\ Len(df.rows) > 0)
    => LET n == Len(df.rows)
           c == CompleteRows(df.rows)
       IN  /\ ~ret.raised
           /\ ret.value.pct_complete_weight_records = Rat[rint[10000 * c, n], 100]
           /\ c = 0 => /\ ret.value.pct_complete_weight_records = [n |-> 0, d |-> 1]
                       /\ ret.value.avg_daily_gain_kg_day = NA

\* one complete row whose end date is not after its birth, and one incomplete row: 50.0
C7_Witness ==
    /\ ReturnedFrom("calculate_productivity_metrics")
    /\ Len(df.rows) = 2
    /\ \E i \in 1..2 : /\ CompleteRow(df.rows[i])
                       /\ isna(df.rows[i].last_weight_date)
                       /\ V(df.rows[i].exit_date) <= V(df.rows[i].birth_date)
    /\ \E i \in 1..2 : ~CompleteRow(df.rows[i])
    /\ ret.value.pct_complete_weight_records = [n |-> 50, d |-> 1]
    /\ ret.value.avg_daily_gain_kg_day = NA

\* C8: for every non-empty table whose sex values are all M or F, total_animals is the
\* number of rows and pct_females + pct_males differs from 100 by at most 0.01.
C8_SexPercentagesSumTo100 ==
    (/\ ReturnedFrom("calculate_herd_structure")
     /\ Len(df.rows) > 0
     /\ \A i \in 1..Len(df.rows) : df.rows[i].sex \in {<<"M">>, <<"F">>})
    => /\ ~ret.raised
       /\ ret.value.total_animals = Len(df.rows)
       /\ LET sum == RAdd[ret.value.pct_females, ret.value.pct_males]
          IN  /\ RLe(Rat[9999, 100], sum)
              /\ RLe(sum, Rat[10001, 100])

\* two females and one male: 66.67 and 33.33
C8_Witness ==
    /\ ReturnedFrom("calculate_herd_structure")
    /\ Len(df.rows) = 3
    /\ ret.value.total_animals = 3
    /\ ret.value.pct_females = Rat[6667, 100]
    /\ ret.value.pct_males = Rat[3333, 100]

-----------------------------------------------------------------------------
(* The validator and the run of main (SpecMain) *)

ColumnsPresent(sheet) == required_columns \subseteq sheet.columns
IdsMatch(sheet) == \A i \in 1..Len(sheet.rows) : str_match(astype_str(sheet.rows[i].animal_id))
SexesAllowed(sheet) ==
    \A i \in 1..Len(sheet.rows) : sheet.rows[i].sex = <<"M">> \/ sheet.rows[i].sex = <<"F">>
ValidSheet(sheet) == ColumnsPresent(sheet) /\ IdsMatch(sheet) /\ SexesAllowed(sheet)

\* a cell after coercion: a date or a number keeps its value, anything else is missing
Coerced(c, kind) == IF c /= NA /\ c[1] = kind THEN <<c[2]>> ELSE NA

LoadRan == Len(steps) >= 2
LoadFailed == Len(steps) = 2 /\ pc = "failed"

\* C3: load_animal_data is all-or-nothing.  It returns a table only if the nine columns
\* are present, every animal_id matches ^PT\d{9}$ and every sex is M or F; otherwise it
\* raises, reporting the missing columns first, then the identifiers, then the sex
\* values, and no table is kept.  When it returns, the table has as many rows as the
\* sheet, row by row the same, with unparseable dates and weights missing.
C3_LoadAllOrNothing ==
    LoadRan =>
       /\ LoadFailed <=> ~ValidSheet(raw)
       /\ LoadFailed =>
             /\ df = NoSheet
             /\ ret.raised
             /\ ret.about = IF ~ColumnsPresent(raw) THEN "Missing required columns"
                            ELSE IF ~IdsMatch(raw) THEN "Invalid animal_id format"
                            ELSE "Invalid sex values"
       /\ ~LoadFailed =>
             /\ df.columns = raw.columns
             /\ Len(df.rows) = Len(raw.rows)
             /\ \A i \in 1..Len(raw.rows) :
                   /\ df.rows[i].animal_id = raw.rows[i].animal_id
                   /\ df.rows[i].sex = raw.rows[i].sex
                   /\ df.rows[i].birth_date = Coerced(raw.rows[i].birth_date, "date")
                   /\ df.rows[i].last_weight_date = Coerced(raw.rows[i].last_weight_date, "date")
                   /\ df.rows[i].weight_birth_kg = Coerced(raw.rows[i].weight_birth_kg, "number")
                   /\ df.rows[i].weight_last_kg = Coerced(raw.rows[i].weight_last_kg, "number")

\* a sheet of two rows, one with an unparseable date and one with an unparseable weight,
\* has been loaded: both rows are there, with those cells missing
C3_Witness ==
    /\ LoadRan
    /\ ~LoadFailed
    /\ Len(raw.rows) = 2
    /\ raw.rows[1].birth_date[1] = "text"
    /\ raw.rows[2].weight_birth_kg[1] = "text"
    /\ Len(df.rows) = 2
    /\ df.rows[1].birth_date = NA
    /\ df.rows[2].weight_birth_kg = NA

MainOrder ==
    <<"ensure_file_exists", "load_animal_data", "calculate_herd_structure",
      "calculate_productivity_metrics", "evaluate_sustainability", "print",
      "export_report_to_excel">>

Terminated == pc \in {"done", "failed"}

RunOrdered ==
    /\ Len(steps) <= Len(MainOrder)
    /\ steps = SubSeq(MainOrder, 1, Len(steps))
    /\ Len(output) <= 1
    /\ Len(output) = 1 => (steps = MainOrder /\ pc = "done" /\ Len(stdout) >= 3)
    /\ pc = "done" => Len(output) = 1
    /\ pc = "failed" => (Len(output) = 0 /\ ret.raised)
    /\ (~fileExists \/ ~ValidSheet(raw)) => Len(output) = 0
    /\ (Len(steps) >= 1 /\ ~fileExists) => (pc = "failed" /\ Len(steps) = 1)
    /\ (LoadRan /\ ~ValidSheet(raw)) => LoadFailed

\* C9: every run of main takes its steps in one fixed order, each at most once: the
\* existence check, the load, the herd structure, the productivity, the sustainability,
\* the printing, then the writing.  The output is written at most once and only after
\* every earlier step has succeeded; a run whose input file is missing or whose sheet is
\* invalid ends with that error and nothing written; every run eventually ends, and a run
\* in which no step fails ends with the output written.
C9_MainRunsInOrder ==
    /\ []RunOrdered
    /\ <>Terminated
    /\ (fileExists /\ ValidSheet(raw)) ~> (pc = "done" /\ Len(output) = 1)

\* a run that ended with the report written after all seven steps
C9_Witness ==
    /\ pc = "done"
    /\ steps = MainOrder
    /\ Len(output) = 1
    /\ Len(raw.rows) = 2
    /\ output[1].animals = df

====
